---- MODULE Spec2Model ----
(***************************************************************************)
(* State-machine model of three programs of the repository:                *)
(*   - the Streamlit chat application (src/app2.py: azure_services.py,     *)
(*     ui_components.py and app.py), one action per script run;            *)
(*   - chunk_text of src/rag_chat.py, a pure function over a text;         *)
(*   - download_dataset of src/download_dataset.py, one action per step.   *)
(***************************************************************************)
EXTENDS Integers, Sequences, FiniteSets, TLC

VARIABLES
    session_state,   \* st.session_state: a function from keys to values
    img_uploader,    \* the file held by the "img_uploader" widget (None: no file)
    tts_toggle,      \* the value of the "Enable Text-to-Speech" toggle
    chats,           \* database: the chats table, chat id i holds title chats[i]
    db_messages,     \* database: the messages table, per chat id
    calls,           \* history: per chat, the invocations of get_chat_completion
                     \* for the user message last appended to the chat
    uploads,         \* number of files uploaded so far (file k has bytes k)
    run_pending,     \* a run without widget trigger is due: page load or st.rerun()
    text,            \* chunk_text: the argument text (a sequence of characters)
    chunk_size,      \* chunk_text: the argument chunk_size
    overlap,         \* chunk_text: the argument overlap
    chunks,          \* chunk_text: the returned list
    chunk_pc,        \* chunk_text: "ready", then "done" or "raised"
    dl_files,        \* download_dataset: the file system, a set of <<directory, name>>
    dl_dataset,      \* download_dataset: the files as kagglehub downloaded them
    dl_versioned,    \* download_dataset: <dataset_path>/versions/1 exists
    dl_todo,         \* download_dataset: the names os.listdir returned, not yet moved
    dl_pc            \* download_dataset: position in the function

appVars == <<session_state, img_uploader, tts_toggle, chats, db_messages, calls,
             uploads, run_pending>>
chunkVars == <<text, chunk_size, overlap, chunks, chunk_pc>>
dlVars == <<dl_files, dl_dataset, dl_versioned, dl_todo, dl_pc>>
vars == <<appVars, chunkVars, dlVars>>

-----------------------------------------------------------------------------
(* Bounds *)

MaxMsgs == 3
MaxChats == 1
MaxUploads == 1
MaxCalls == 2
MaxLen == 5
MaxChunkSize == 3
MaxFiles == 2

-----------------------------------------------------------------------------
(* Values *)

\* Python's None; also "key absent" for session_state.get(key).
None == 0
\* b"", what read() returns at the end of a buffer.
EmptyBytes == -1

Prompts == {"p1"}
Responses == {"r1"}

ChatIds == 1..MaxChats
UploadIds == 1..MaxUploads

\* Python truthiness of None, b"" and non-empty bytes.
Truthy(v) == v # None /\ v # EmptyBytes

EmptySessionState == [k \in {} |-> None]

Get(ss, k) == IF k \in DOMAIN ss THEN ss[k] ELSE None

GetOr(ss, k, default) == IF k \in DOMAIN ss THEN ss[k] ELSE default

Set(ss, k, v) == [x \in (DOMAIN ss) \cup {k} |-> IF x = k THEN v ELSE ss[x]]

Messages(ss) == IF "messages" \in DOMAIN ss THEN ss["messages"] ELSE <<>>

-----------------------------------------------------------------------------
(* database module *)

add_chat(ch, title) == Append(ch, title)

add_message(db, chat_id, role, content) ==
    [db EXCEPT ![chat_id] = Append(@, [role |-> role, content |-> content])]

get_messages(db, chat_id) ==
    [i \in 1..Len(db[chat_id]) |->
        [role |-> db[chat_id][i].role, content |-> db[chat_id][i].content,
         image |-> None]]

-----------------------------------------------------------------------------
(* One script run of app.py.  A run is a record r:                         *)
(*   ss, chats, db, calls : the state as the run has changed it so far,    *)
(*   end    : "running", or how the run ended: "rerun" (st.rerun()),       *)
(*            "error" (an uncaught exception), "done" (end of script),     *)
(*   within : FALSE when the run needs more than the bounds allow.         *)
(* An event ev is the widget interaction that triggered the run.           *)

StartRun == [ss |-> session_state, chats |-> chats, db |-> db_messages,
             calls |-> calls, end |-> "running", within |-> TRUE]

\* app.py: initialise session state
InitSessionState(r) ==
    LET s1 == IF "current_chat_id" \notin DOMAIN r.ss
              THEN Set(r.ss, "current_chat_id", None) ELSE r.ss
        s2 == IF "messages" \notin DOMAIN s1 THEN Set(s1, "messages", <<>>) ELSE s1
        s3 == IF "staged_image" \notin DOMAIN s2 THEN Set(s2, "staged_image", None) ELSE s2
    IN  [r EXCEPT !.ss = s3]

\* ui_components.py: render_sidebar.  uploaded is the uploader's file, data is
\* what uploaded_image.read() returns, toggle the toggle's value.  (The document
\* and audio uploaders write only vector_store and prompt_from_audio, which no
\* handler of messages, staged_image or the database reads: not modelled.)
render_sidebar(r, ev, uploaded, data, toggle) ==
    IF ev.type = "new_chat"
    THEN [r EXCEPT !.ss = EmptySessionState, !.end = "rerun"]
    ELSE IF ev.type = "select_chat"
    THEN [r EXCEPT
            !.ss = Set(Set(Set(r.ss,
                       "current_chat_id", ev.chat_id),
                       "messages", get_messages(r.db, ev.chat_id)),
                       "staged_image", None),
            !.end = "rerun"]
    ELSE LET s1 == IF uploaded # None THEN Set(r.ss, "staged_image", data) ELSE r.ss
         IN  IF Truthy(Get(s1, "staged_image")) /\ ev.type = "clear_staged"
             THEN [r EXCEPT !.ss = Set(s1, "staged_image", None), !.end = "rerun"]
             ELSE [r EXCEPT !.ss = Set(s1, "tts_enabled", toggle)]

\* app.py: user input handling
UserInputHandling(r, ev) ==
    IF r.end # "running" \/ ev.type # "submit" THEN r
    ELSE IF r.ss["current_chat_id"] = None /\ Len(r.chats) >= MaxChats
    THEN [r EXCEPT !.within = FALSE]
    ELSE IF r.ss["current_chat_id"] # None /\ Len(r.ss["messages"]) >= MaxMsgs
    THEN [r EXCEPT !.within = FALSE]
    ELSE
    LET new == r.ss["current_chat_id"] = None
        ch == IF new THEN add_chat(r.chats, <<ev.prompt, "...">>) ELSE r.chats
        s1 == IF new
              THEN Set(Set(r.ss, "current_chat_id", Len(ch)), "messages", <<>>)
              ELSE r.ss
        staged == s1["staged_image"]
        user_message == [role |-> "user", content |-> ev.prompt,
                         image |-> IF Truthy(staged) THEN staged ELSE None]
        s2 == IF Truthy(staged) THEN Set(s1, "staged_image", None) ELSE s1
        s3 == Set(s2, "messages", Append(s2["messages"], user_message))
        chat_id == s3["current_chat_id"]
    IN  [r EXCEPT !.ss = s3, !.chats = ch,
                  !.db = add_message(r.db, chat_id, "user", ev.prompt),
                  !.calls[chat_id] = 0,
                  !.end = "rerun"]

\* app.py: the condition of the AI response generation block
LastIsUser(ss) ==
    LET msgs == ss["messages"] IN msgs # <<>> /\ msgs[Len(msgs)].role = "user"

\* The response block with the assistant's message appended to the session
\* and not written to the database.
AIResponseGeneration_NoPersist(r, outcome, response_content) ==
    IF r.end # "running" THEN r
    ELSE IF ~LastIsUser(r.ss) THEN r
    ELSE
    LET msgs == r.ss["messages"]
        chat_id == r.ss["current_chat_id"]
    IN
    IF r.calls[chat_id] >= MaxCalls \/ Len(msgs) >= MaxMsgs
    THEN [r EXCEPT !.within = FALSE]
    ELSE
    LET called == [r EXCEPT !.calls[chat_id] = @ + 1]
        tts_enabled == GetOr(r.ss, "tts_enabled", FALSE)
    IN
    IF outcome \in {"completion_error", "stream_error"}
    THEN [called EXCEPT !.end = "error"]
    ELSE IF tts_enabled /\ outcome = "tts_error"
    THEN [called EXCEPT !.end = "error"]
    ELSE
    LET assistant_message ==
            [role |-> "assistant", content |-> response_content, image |-> None]
    IN  [called EXCEPT
            !.ss = Set(r.ss, "messages", Append(msgs, assistant_message)),
            !.end = "rerun"]

\* app.py: AI response generation.  outcome is what the SDK calls do in this
\* run, response_content what the completion streams.  (The "audio" key of the
\* assistant message is read by no operation but the rendering: not modelled.)
AIResponseGeneration(r, outcome, response_content) ==
    IF r.end # "running" THEN r
    ELSE IF ~LastIsUser(r.ss) THEN r
    ELSE
    LET msgs == r.ss["messages"]
        chat_id == r.ss["current_chat_id"]
    IN
    IF r.calls[chat_id] >= MaxCalls \/ Len(msgs) >= MaxMsgs
    THEN [r EXCEPT !.within = FALSE]
    ELSE
    LET called == [r EXCEPT !.calls[chat_id] = @ + 1]
        tts_enabled == GetOr(r.ss, "tts_enabled", FALSE)
    IN
    IF outcome \in {"completion_error", "stream_error"}
    THEN [called EXCEPT !.end = "error"]
    ELSE IF tts_enabled /\ outcome = "tts_error"
    THEN [called EXCEPT !.end = "error"]
    ELSE
    LET assistant_message ==
            [role |-> "assistant", content |-> response_content, image |-> None]
    IN  [called EXCEPT
            !.ss = Set(r.ss, "messages", Append(msgs, assistant_message)),
            !.db = add_message(r.db, chat_id, "assistant", response_content),
            !.end = "rerun"]

\* app.py: microphone button logic, and the end of the script
MicrophoneButton(r, ev) ==
    IF r.end # "running" THEN r ELSE [r EXCEPT !.end = "done"]

\* What the SDK calls of the response block can do in a run: the completion
\* call or the stream raises, the speech synthesis raises, or all succeed.
Outcomes(r) ==
    IF r.end = "running" /\ LastIsUser(r.ss)
    THEN {"ok", "completion_error", "stream_error"} \cup
         (IF GetOr(r.ss, "tts_enabled", FALSE) THEN {"tts_error"} ELSE {})
    ELSE {"ok"}

\* The whole run as a step of the application.
ScriptRun(ev, uploaded, data, toggle) ==
    LET r0 == UserInputHandling(
                  render_sidebar(InitSessionState(StartRun), ev, uploaded, data, toggle),
                  ev)
    IN
    \E outcome \in Outcomes(r0), response_content \in Responses :
        LET r == MicrophoneButton(AIResponseGeneration(r0, outcome, response_content), ev) IN
        /\ r.within
        /\ session_state' = r.ss
        /\ chats' = r.chats
        /\ db_messages' = r.db
        /\ calls' = r.calls
        /\ run_pending' = (r.end = "rerun")
        /\ img_uploader' = uploaded
        /\ tts_toggle' = toggle

Event(type) == [type |-> type]

-----------------------------------------------------------------------------
(* The application: the browser session starts with the page load; every   *)
(* widget interaction triggers one script run; st.rerun() triggers the     *)
(* next run at once.                                                       *)

ChunkIdle == text = <<>> /\ chunk_size = 0 /\ overlap = 0 /\ chunks = <<>> /\ chunk_pc = "off"
DlIdle ==
    /\ dl_files = {} /\ dl_dataset = {} /\ dl_versioned = FALSE
    /\ dl_todo = {} /\ dl_pc = "off"

Init ==
    /\ session_state = EmptySessionState
    /\ img_uploader = None
    /\ tts_toggle = FALSE
    /\ chats = <<>>
    /\ db_messages = [c \in ChatIds |-> <<>>]
    /\ calls = [c \in ChatIds |-> 0]
    /\ uploads = 0
    /\ run_pending = TRUE
    /\ ChunkIdle
    /\ DlIdle

\* The run that follows the page load or st.rerun(): no widget is triggered.
\* The uploader's value was read in an earlier run: read() returns the file's
\* bytes from a fresh buffer, or b"" from the buffer that run left at its end.
Rerun ==
    /\ run_pending
    /\ \E data \in (IF img_uploader = None THEN {None} ELSE {img_uploader, EmptyBytes}) :
          ScriptRun(Event("rerun"), img_uploader, data, tts_toggle)
    /\ UNCHANGED <<uploads, chunkVars, dlVars>>

NewChatClick ==
    /\ ~run_pending
    /\ ScriptRun(Event("new_chat"), img_uploader, img_uploader, tts_toggle)
    /\ UNCHANGED <<uploads, chunkVars, dlVars>>

SelectChatClick ==
    /\ ~run_pending
    /\ \E c \in 1..Len(chats) :
          ScriptRun([type |-> "select_chat", chat_id |-> c],
                    img_uploader, img_uploader, tts_toggle)
    /\ UNCHANGED <<uploads, chunkVars, dlVars>>

UploadImage ==
    /\ ~run_pending
    /\ uploads < MaxUploads
    /\ uploads' = uploads + 1
    /\ ScriptRun(Event("upload"), uploads + 1, uploads + 1, tts_toggle)
    /\ UNCHANGED <<chunkVars, dlVars>>

RemoveImage ==
    /\ ~run_pending
    /\ img_uploader # None
    /\ ScriptRun(Event("remove"), None, None, tts_toggle)
    /\ UNCHANGED <<uploads, chunkVars, dlVars>>

ClearStagedClick ==
    /\ ~run_pending
    /\ Truthy(Get(session_state, "staged_image"))
    /\ ScriptRun(Event("clear_staged"), img_uploader, img_uploader, tts_toggle)
    /\ UNCHANGED <<uploads, chunkVars, dlVars>>

SubmitPrompt ==
    /\ ~run_pending
    /\ \E prompt \in Prompts :
          ScriptRun([type |-> "submit", prompt |-> prompt],
                    img_uploader, img_uploader, tts_toggle)
    /\ UNCHANGED <<uploads, chunkVars, dlVars>>

ToggleTts ==
    /\ ~run_pending
    /\ ScriptRun(Event("toggle"), img_uploader, img_uploader, ~tts_toggle)
    /\ UNCHANGED <<uploads, chunkVars, dlVars>>

MicClick ==
    /\ ~run_pending
    /\ ScriptRun(Event("mic"), img_uploader, img_uploader, tts_toggle)
    /\ UNCHANGED <<uploads, chunkVars, dlVars>>

Next ==
    \/ Rerun
    \/ NewChatClick
    \/ SelectChatClick
    \/ UploadImage
    \/ RemoveImage
    \/ ClearStagedClick
    \/ SubmitPrompt
    \/ ToggleTts
    \/ MicClick

Spec == Init /\ [][Next]_vars

AppIdle ==
    /\ session_state = EmptySessionState
    /\ img_uploader = None
    /\ tts_toggle = FALSE
    /\ chats = <<>>
    /\ db_messages = [c \in ChatIds |-> <<>>]
    /\ calls = [c \in ChatIds |-> 0]
    /\ uploads = 0
    /\ run_pending = FALSE

-----------------------------------------------------------------------------
(* rag_chat.py: chunk_text.  A text is a sequence of characters, a word a   *)
(* non-empty sequence of non-whitespace characters.                         *)

Chars == {"a", "b", " "}
IsSpace(c) == c = " "

Texts == UNION {[1..n -> Chars] : n \in 0..MaxLen}

\* str.split(): the maximal runs of non-whitespace characters, in order.
\* SplitFrom scans t from position i with the words found so far and the
\* word being read.
RECURSIVE SplitFrom(_, _, _, _)
SplitFrom(t, i, words, cur) ==
    IF i > Len(t)
    THEN IF cur = <<>> THEN words ELSE Append(words, cur)
    ELSE IF IsSpace(t[i])
    THEN SplitFrom(t, i + 1, IF cur = <<>> THEN words ELSE Append(words, cur), <<>>)
    ELSE SplitFrom(t, i + 1, words, Append(cur, t[i]))

split(t) == SplitFrom(t, 1, <<>>, <<>>)

\* " ".join(ws)
RECURSIVE join(_)
join(ws) ==
    IF ws = <<>> THEN <<>>
    ELSE IF Len(ws) = 1 THEN ws[1]
    ELSE ws[1] \o <<" ">> \o join(Tail(ws))

\* Python's words[i:j] for 0 <= i, j (0-based, j exclusive, clipped to the list).
Slice(ws, i, j) ==
    LET hi == IF j < Len(ws) THEN j ELSE Len(ws) IN
    IF i >= hi THEN <<>> ELSE SubSeq(ws, i + 1, hi)

\* The loop of chunk_text: for i in range(i, len(words), step), step > 0.
RECURSIVE ChunkLoop(_, _, _, _, _)
ChunkLoop(words, i, step, size, acc) ==
    IF i >= Len(words) THEN acc
    ELSE ChunkLoop(words, i + step, step, size,
                   Append(acc, join(Slice(words, i, i + size))))

\* chunk_text with the loop advancing by chunk_size, the overlap forgotten.
chunk_text_NoOverlap(t, size, ov) ==
    LET words == split(t)
        step == size - ov
    IN  IF step = 0 THEN [raised |-> TRUE, chunks |-> <<>>]
        ELSE IF step < 0 THEN [raised |-> FALSE, chunks |-> <<>>]
        ELSE [raised |-> FALSE, chunks |-> ChunkLoop(words, 0, size, size, <<>>)]

\* chunk_text(text, chunk_size, overlap): range() raises ValueError for a step
\* of zero and is empty for a negative step.
chunk_text(t, size, ov) ==
    LET words == split(t)
        step == size - ov
    IN  IF step = 0 THEN [raised |-> TRUE, chunks |-> <<>>]
        ELSE IF step < 0 THEN [raised |-> FALSE, chunks |-> <<>>]
        ELSE [raised |-> FALSE, chunks |-> ChunkLoop(words, 0, step, size, <<>>)]

InitChunk ==
    /\ text \in Texts
    /\ chunk_size \in 1..MaxChunkSize
    /\ overlap \in 0..MaxChunkSize
    /\ chunks = <<>>
    /\ chunk_pc = "ready"
    /\ AppIdle
    /\ DlIdle

CallChunkText ==
    /\ chunk_pc = "ready"
    /\ LET res == chunk_text(text, chunk_size, overlap) IN
          /\ chunks' = res.chunks
          /\ chunk_pc' = IF res.raised THEN "raised" ELSE "done"
    /\ UNCHANGED <<text, chunk_size, overlap, appVars, dlVars>>

NextChunk == CallChunkText

SpecChunk == InitChunk /\ [][NextChunk]_vars

-----------------------------------------------------------------------------
(* download_dataset.py: download_dataset.  The file system is a set of      *)
(* <<directory, name>>: "dataset_path" is the directory                     *)
(* kagglehub.dataset_download returned, "versioned_dir" its versions/1, and *)
(* "current_dir" os.getcwd().                                               *)

FileNames == 1..MaxFiles

InitDownload ==
    /\ dl_files \in SUBSET ({"current_dir"} \X FileNames)
    /\ dl_dataset = {}
    /\ dl_versioned = FALSE
    /\ dl_todo = {}
    /\ dl_pc = "download"
    /\ AppIdle
    /\ ChunkIdle

\* dataset_path = kagglehub.dataset_download(dataset_id): the library puts the
\* dataset's files into the directory it returns; whether that directory has a
\* versions/1 below it, and which files are in it, is the library's layout.
DatasetDownload ==
    /\ dl_pc = "download"
    /\ \E top \in SUBSET FileNames, below \in SUBSET FileNames, has_dir \in BOOLEAN :
          /\ top \cup below # {}
          /\ below # {} => has_dir
          /\ dl_dataset' = ({"dataset_path"} \X top) \cup ({"versioned_dir"} \X below)
          /\ dl_versioned' = has_dir
    /\ dl_files' = dl_files \cup dl_dataset'
    /\ dl_pc' = "exists"
    /\ UNCHANGED <<dl_todo, appVars, chunkVars>>

\* if os.path.exists(versioned_dir): for filename in os.listdir(versioned_dir)
\* else: print("Could not find versioned directory structure. ...")
VersionedDirExists ==
    /\ dl_pc = "exists"
    /\ IF dl_versioned
       THEN /\ dl_todo' = {f[2] : f \in {g \in dl_files : g[1] = "versioned_dir"}}
            /\ dl_pc' = "move"
       ELSE /\ dl_todo' = {}
            /\ dl_pc' = "complete"
    /\ UNCHANGED <<dl_files, dl_dataset, dl_versioned, appVars, chunkVars>>

\* shutil.move(src, dst) of a file onto a path of the same file system
move(files, src, dst) == (files \ {src}) \cup {dst}

\* One iteration of the loop: shutil.move(src, dst)
MoveFile ==
    /\ dl_pc = "move"
    /\ dl_todo # {}
    /\ \E filename \in dl_todo :
          /\ dl_files' = move(dl_files, <<"versioned_dir", filename>>,
                              <<"current_dir", filename>>)
          /\ dl_todo' = dl_todo \ {filename}
    /\ UNCHANGED <<dl_dataset, dl_versioned, dl_pc, appVars, chunkVars>>

LoopEnd ==
    /\ dl_pc = "move"
    /\ dl_todo = {}
    /\ dl_pc' = "complete"
    /\ UNCHANGED <<dl_files, dl_dataset, dl_versioned, dl_todo, appVars, chunkVars>>

\* print("Dataset download and relocation complete.") and return
RelocationComplete ==
    /\ dl_pc = "complete"
    /\ dl_pc' = "returned"
    /\ UNCHANGED <<dl_files, dl_dataset, dl_versioned, dl_todo, appVars, chunkVars>>

NextDownload ==
    \/ DatasetDownload
    \/ VersionedDirExists
    \/ MoveFile
    \/ LoopEnd
    \/ RelocationComplete

SpecDownload == InitDownload /\ [][NextDownload]_vars

-----------------------------------------------------------------------------
(* Properties of chunk_text (SpecChunk) *)

CeilDiv(a, b) == (a + b - 1) \div b
Min(a, b) == IF a < b THEN a ELSE b
LastWords(ws, k) == SubSeq(ws, Len(ws) - k + 1, Len(ws))

C3Pre == chunk_pc = "done" /\ chunk_size > overlap
C3Step == chunk_size - overlap
C3Words == split(text)
ChunkWords(i) == split(chunks[i])

\* exactly ceil(n / step) chunks, chunk i the words i*step .. min(n, i*step + chunk_size) - 1
C3Shape ==
    /\ Len(chunks) = CeilDiv(Len(C3Words), C3Step)
    /\ \A i \in 0..(Len(chunks) - 1) :
          chunks[i + 1] =
              join(SubSeq(C3Words, i * C3Step + 1,
                          Min(Len(C3Words), i * C3Step + chunk_size)))

\* every word lies in at least one chunk, at its place
C3Covered ==
    \A j \in 1..Len(C3Words) :
        \E i \in 1..Len(chunks) :
            \E k \in 1..Len(ChunkWords(i)) :
                (i - 1) * C3Step + k = j /\ ChunkWords(i)[k] = C3Words[j]

C3NonEmpty == \A i \in 1..Len(chunks) : chunks[i] # <<>> /\ ChunkWords(i) # <<>>

C3EmptyText == (text = <<>> \/ C3Words = <<>>) => chunks = <<>>

StartsWithOverlapOf(i) ==
    /\ Len(ChunkWords(i)) >= overlap
    /\ SubSeq(ChunkWords(i), 1, overlap) = LastWords(ChunkWords(i - 1), overlap)

ProperSuffixOf(i) ==
    /\ Len(ChunkWords(i)) < Len(ChunkWords(i - 1))
    /\ ChunkWords(i) = LastWords(ChunkWords(i - 1), Len(ChunkWords(i)))

\* C3 as stated: for chunk_size > overlap >= 0, chunk_text returns exactly
\* ceil(n / (chunk_size - overlap)) chunks, chunk i being the words
\* i*step .. min(n, i*step + chunk_size) - 1 joined by single spaces; every word
\* lies in a chunk, every chunk is non-empty, an empty text yields no chunks, and
\* each chunk after the first starts with the last `overlap` words of a full
\* predecessor.
C3_Original ==
    C3Pre =>
        /\ C3Shape
        /\ C3Covered
        /\ C3NonEmpty
        /\ C3EmptyText
        /\ \A i \in 2..Len(chunks) :
              Len(ChunkWords(i - 1)) = chunk_size /\ StartsWithOverlapOf(i)

\* C3 amended: as C3, except that only a chunk whose predecessor is full
\* (chunk_size words) starts with the last `overlap` words of that predecessor;
\* a chunk whose predecessor is shorter is a proper suffix of it.
C3_ChunkText ==
    C3Pre =>
        /\ C3Shape
        /\ C3Covered
        /\ C3NonEmpty
        /\ C3EmptyText
        /\ \A i \in 2..Len(chunks) :
              IF Len(ChunkWords(i - 1)) = chunk_size
              THEN StartsWithOverlapOf(i)
              ELSE ProperSuffixOf(i)

\* chunk_text has returned three chunks or more with a positive overlap, the
\* last one after a short predecessor and shorter than the overlap.
C3_Witness ==
    /\ C3Pre
    /\ overlap > 0
    /\ Len(chunks) >= 3
    /\ \E i \in 2..Len(chunks) :
          /\ Len(ChunkWords(i - 1)) < chunk_size
          /\ Len(ChunkWords(i)) < overlap
          /\ ProperSuffixOf(i)

-----------------------------------------------------------------------------
(* Properties of download_dataset (SpecDownload) *)

\* C4: when download_dataset has returned, every file of the downloaded dataset
\* is in the current working directory and no longer where it was downloaded.
C4_DatasetRelocated ==
    dl_pc = "returned" =>
        \A f \in dl_dataset :
            /\ <<"current_dir", f[2]>> \in dl_files
            /\ f \notin dl_files

-----------------------------------------------------------------------------
(* Properties of the Streamlit application (Spec) *)

SessionMessages == Messages(session_state)
StagedImage == Get(session_state, "staged_image")
CurrentChat == Get(session_state, "current_chat_id")

\* C1: a staged image is sent with the next submitted user message and with no
\* other.  Every upload is a different file, so: no two user messages of the
\* session carry the same image, and no image that a message of the session
\* carries is staged (again) at the end of a script run.
C1_StagedImageSentOnce ==
    /\ \A i \in 1..Len(SessionMessages) : \A j \in 1..Len(SessionMessages) :
          (i < j /\ SessionMessages[i].image # None)
              => SessionMessages[j].image # SessionMessages[i].image
    /\ \A i \in 1..Len(SessionMessages) :
          SessionMessages[i].image # None => StagedImage # SessionMessages[i].image

\* C2: get_chat_completion is invoked at most once for each user message.
C2_CompletionInvokedAtMostOnce == \A c \in ChatIds : calls[c] <= 1

\* C5: the roles of st.session_state.messages alternate user, assistant, user,
\* ... beginning with user (the database is empty at the page load, so every
\* chat is one started in this session).
C5_RolesAlternate ==
    \A i \in 1..Len(SessionMessages) :
        SessionMessages[i].role = IF i % 2 = 1 THEN "user" ELSE "assistant"

Persisted == IF CurrentChat = None THEN <<>> ELSE db_messages[CurrentChat]

\* C6: at the end of every script run the (role, text) pairs persisted for
\* current_chat_id are the (role, content) pairs of st.session_state.messages,
\* in the same order.
C6_PersistedMirrorsSession ==
    /\ Len(Persisted) = Len(SessionMessages)
    /\ \A i \in 1..Len(SessionMessages) :
          /\ Persisted[i].role = SessionMessages[i].role
          /\ Persisted[i].content = SessionMessages[i].content

\* A chat holds a user message whose completion failed in one run and succeeded
\* in a later one, after which the assistant's message was appended.
C6_Witness ==
    /\ CurrentChat # None
    /\ ~run_pending
    /\ Len(SessionMessages) >= 2
    /\ SessionMessages[Len(SessionMessages)].role = "assistant"
    /\ calls[CurrentChat] >= 2
    /\ Len(Persisted) = Len(SessionMessages)

====
